---- MODULE Spec2Model ----
(***************************************************************************)
(* Model of the serving process of the Cell Avenue RAG chatbot:            *)
(* app/rag/retriever.py (class CellAvenueRAG: the session store, query,    *)
(* query_stream, get_index_info) and app/api/main.py (the /chat,           *)
(* /chat/stream, /session and /index-info endpoints).                      *)
(*                                                                         *)
(* Every request is run by one of the processes of Procs, the worker       *)
(* threads of the hosting framework; a process runs one request at a time  *)
(* and the steps of different processes interleave freely.  The chat       *)
(* model, the embedding model and the vector index are external: a call to *)
(* one of them either raises or returns a value drawn from a small set.    *)
(*                                                                         *)
(* Text is a sequence of one-character strings.                            *)
(***************************************************************************)
EXTENDS Integers, Sequences, FiniteSets, Bags, TLC

\* ------------------------------------------------------------- bounds
MaxOps == 2
WarmTurns == 9

\* ---------------------------------------------------- program constants
MAX_HISTORY_TURNS == 10
HISTORY_WINDOW == 6

\* The worker threads that serve requests.
Procs == {1, 2}

\* The values uuid4().hex[:12] can take, and the ids a client can send.
SessionIds == {"s1", "s2"}
\* session_id: str | None, the ids and None (an empty string takes None's path).
None == "None"
SessionArgs == SessionIds \cup {None}

Questions == {<<"q">>}
\* The chunk sequences the chat model answers with (chunk.content of each
\* chunk): no chunk at all, or two tokens around an empty chunk.
Outputs == {<<>>, <<<<"a">>, <<>>, <<"b">>>>}
\* rewrite_resp.content: empty, whitespace only, or padded text.
RewriteResponses == {<<>>, <<" ">>, <<" ", "r", " ">>}
Whitespace == {" "}

\* -------------------------------------------------------- pure helpers
\* Python's s[-n:] for n > 0.
LastN(s, n) == IF Len(s) > n THEN SubSeq(s, Len(s) - n + 1, Len(s)) ELSE s

RECURSIVE LStrip(_)
LStrip(s) == IF s # <<>> /\ Head(s) \in Whitespace THEN LStrip(Tail(s)) ELSE s

RECURSIVE RStrip(_)
RStrip(s) ==
    IF s # <<>> /\ s[Len(s)] \in Whitespace
    THEN RStrip(SubSeq(s, 1, Len(s) - 1))
    ELSE s

\* str.strip()
Strip(s) == RStrip(LStrip(s))

\* The concatenation of a sequence of texts.
RECURSIVE Concat(_)
Concat(ss) == IF ss = <<>> THEN <<>> ELSE Head(ss) \o Concat(Tail(ss))

\* Whether the chunks seen so far can be followed by token.
Continues(seen, token) ==
    \E o \in Outputs :
        /\ Len(o) > Len(seen)
        /\ SubSeq(o, 1, Len(seen)) = seen
        /\ o[Len(seen) + 1] = token
Tokens == UNION {{o[i] : i \in DOMAIN o} : o \in Outputs}

Msg(role, content) == [role |-> role, content |-> content]

BagOfSeq(s) ==
    [m \in {s[i] : i \in DOMAIN s} |-> Cardinality({i \in DOMAIN s : s[i] = m})]

\* ------------------------------------------------------ the session map
EmptyDict == [k \in {} |-> <<>>]
\* A faulty store that keeps no other key.
SetItemAlone(d, k, v) == [x \in {k} |-> v]
\* d[k] = v
SetItem(d, k, v) == [x \in DOMAIN d \cup {k} |-> IF x = k THEN v ELSE d[x]]
\* d.get(k, [])
GetOr(d, k) == IF k \in DOMAIN d THEN d[k] ELSE <<>>
\* d[k] of a defaultdict(list): a missing key is inserted with [].
Touch(d, k) == IF k \in DOMAIN d THEN d ELSE SetItem(d, k, <<>>)

\* "if not session_id"
Falsy(s) == s \in {None, ""}

\* A faulty trim, history[:N], that keeps the oldest messages.
TrimmedHead(h) ==
    IF Len(h) > MAX_HISTORY_TURNS * 2 THEN SubSeq(h, 1, MAX_HISTORY_TURNS * 2) ELSE h
\* A faulty trim that keeps an odd number of messages.
TrimmedOdd(h) ==
    IF Len(h) > MAX_HISTORY_TURNS * 2 - 1 THEN LastN(h, MAX_HISTORY_TURNS * 2 - 1) ELSE h
\* "if len(history) > MAX_HISTORY_TURNS * 2: ... = history[-(MAX_HISTORY_TURNS * 2):]"
Trimmed(h) ==
    IF Len(h) > MAX_HISTORY_TURNS * 2 THEN LastN(h, MAX_HISTORY_TURNS * 2) ELSE h

\* Python's s[:n].
FirstN(s, n) == IF Len(s) > n THEN SubSeq(s, 1, n) ELSE s

\* A faulty window, history[:6], that takes the oldest messages.
WindowHead(h) == FirstN(h, HISTORY_WINDOW)
\* history[-6:]: what the rewrite prompt and the generation prompt use.
Window(h) == LastN(h, HISTORY_WINDOW)

\* ------------------------------------------------------------ state
VARIABLES
    sessions,        \* self._sessions: session id -> list of messages
    lock,            \* self._lock: 0 when free, else the process holding it
    pc,              \* where each process is in its request
    op,              \* the request a process runs
    arg_sid,         \* the session_id the caller sent
    session_id,      \* the local session_id of query / query_stream
    question,        \* the question the caller sent
    history,         \* the local history (the copy get_session_history returns)
    search_query,    \* the local search_query
    retriever_query, \* the argument of the self.retriever.invoke call under way
    output,          \* the chunks the chat model has produced for this request
    answer,          \* response.content / full_response
    frames,          \* the frames event_generator has sent to the caller
    cur,             \* the local history of _append_to_session
    active_sessions, \* the count get_index_info returned
    \* history variables, read by no action's guard
    appended,        \* per id: the messages appended since the session was created
    issued,          \* per id: the bag of messages of the append calls made since then
    stored,          \* the messages this request has appended, each with its id
    logAtFetch,      \* appended[session_id] when this request fetched its history
    opsStarted       \* requests started so far

\* The offline pipeline (scripts/): each script is a program of its own, run
\* on its own; while the serving process runs, their variables rest.
VARIABLES
    \* clean_raw_data.py, process_file
    src_lines,       \* the lines of the raw shard
    line_no,         \* how many of them the loop has taken
    dst,             \* the records written to the cleaned shard
    read_records,    \* the counter read_records
    clean_pc,        \* "off", "loop", "done" or "raised"
    \* clean_raw_data.py, clean_markdown applied to its own result
    fn_markdown,     \* the text given
    fn_page_type,    \* the page type given
    once,            \* clean_markdown(fn_markdown, fn_page_type)
    twice,           \* clean_markdown(once, fn_page_type)
    fn_pc,           \* "off", "raw", "once" or "twice"
    \* chunk_semantic.py, process_record and merge_small_chunks
    doc_text,        \* record["text"]
    raw_chunks,      \* the spans the splitter returned
    span_no,         \* how many of them the merge loop has taken
    buf,             \* buf
    merged,          \* merged
    results,         \* the chunk records process_record returns
    chunk_pc,        \* "off", "start", "merge", "emit", "skipped" or "done"
    \* retriever.py, _extract_citations
    cite_docs,       \* doc.metadata.get("url", "") of each retrieved doc
    doc_no,          \* how many docs the loop has taken
    seen,            \* seen
    urls,            \* urls
    cite_pc,         \* "off", "loop" or "done"
    \* load_raw_from_firecrawl.py, one scope of main
    load_pc,         \* where main is for the scope
    call,            \* the api_request call under way or last made
    attempt,         \* attempt, the loop variable of api_request
    http_attempts,   \* urlopen calls made by this api_request call
    last_resp,       \* the outcome of the last urlopen call
    retry_log,       \* the sleeps of this api_request call
    job_state,       \* the state of the crawl job at the provider
    started,         \* what start_crawl returned
    status,          \* status["status"] of the status main holds
    waited,          \* poll_until_complete has slept at least once
    shard            \* the status the raw shard was written from

cleanVars == <<src_lines, line_no, dst, read_records, clean_pc>>
CleanIdle ==
    /\ src_lines = <<>>
    /\ line_no = 0
    /\ dst = <<>>
    /\ read_records = 0
    /\ clean_pc = "off"

fnVars == <<fn_markdown, fn_page_type, once, twice, fn_pc>>
FnIdle ==
    /\ fn_markdown = <<>>
    /\ fn_page_type = "other"
    /\ once = <<>>
    /\ twice = <<>>
    /\ fn_pc = "off"

chunkVars == <<doc_text, raw_chunks, span_no, buf, merged, results, chunk_pc>>
ChunkIdle ==
    /\ doc_text = <<>>
    /\ raw_chunks = <<>>
    /\ span_no = 0
    /\ buf = <<>>
    /\ merged = <<>>
    /\ results = <<>>
    /\ chunk_pc = "off"

citeVars == <<cite_docs, doc_no, seen, urls, cite_pc>>
CiteIdle ==
    /\ cite_docs = <<>>
    /\ doc_no = 0
    /\ seen = {}
    /\ urls = <<>>
    /\ cite_pc = "off"

NoBody == [id |-> FALSE, status |-> ""]
loadVars == <<load_pc, call, attempt, http_attempts, last_resp, retry_log,
              job_state, started, status, waited, shard>>
LoadIdle ==
    /\ load_pc = "off"
    /\ call = "none"
    /\ attempt = 0
    /\ http_attempts = 0
    /\ last_resp = 0
    /\ retry_log = <<>>
    /\ job_state = "none"
    /\ started = NoBody
    /\ status = ""
    /\ waited = FALSE
    /\ shard = "none"

batch == <<cleanVars, fnVars, chunkVars, citeVars, loadVars>>
BatchIdle == CleanIdle /\ FnIdle /\ ChunkIdle /\ CiteIdle /\ LoadIdle

vars == <<sessions, lock, pc, op, arg_sid, session_id, question, history,
          search_query, retriever_query, output, answer, frames, cur, active_sessions,
          appended, issued, stored, logAtFetch, opsStarted, batch>>

locals == <<op, arg_sid, session_id, question, history, search_query, output,
            retriever_query,
            answer, frames, cur, active_sessions, stored, logAtFetch>>

\* The history a session holds after n sequential turns: the model's own
\* append and trim applied 2n times.
WarmUser == Msg("user", <<"q">>)
WarmAssistant == Msg("assistant", <<"a">>)
RECURSIVE Served(_)
Served(n) ==
    IF n = 0 THEN <<>>
    ELSE Trimmed(Append(Trimmed(Append(Served(n - 1), WarmUser)), WarmAssistant))
RECURSIVE ServedLog(_)
ServedLog(n) ==
    IF n = 0 THEN <<>> ELSE ServedLog(n - 1) \o <<WarmUser, WarmAssistant>>
WarmSid == "s1"

InitLocals ==
    /\ pc = [p \in Procs |-> "idle"]
    /\ op = [p \in Procs |-> "none"]
    /\ arg_sid = [p \in Procs |-> None]
    /\ session_id = [p \in Procs |-> None]
    /\ question = [p \in Procs |-> <<>>]
    /\ history = [p \in Procs |-> <<>>]
    /\ search_query = [p \in Procs |-> <<>>]
    /\ retriever_query = [p \in Procs |-> <<>>]
    /\ output = [p \in Procs |-> <<>>]
    /\ answer = [p \in Procs |-> <<>>]
    /\ frames = [p \in Procs |-> <<>>]
    /\ cur = [p \in Procs |-> <<>>]
    /\ active_sessions = [p \in Procs |-> 0]
    /\ stored = [p \in Procs |-> <<>>]
    /\ logAtFetch = [p \in Procs |-> <<>>]
    /\ opsStarted = 0

\* CellAvenueRAG.__init__: an empty session map and a free lock.
Init ==
    /\ sessions = EmptyDict
    /\ lock = 0
    /\ appended = [s \in SessionIds |-> <<>>]
    /\ issued = [s \in SessionIds |-> EmptyBag]
    /\ InitLocals
    /\ BatchIdle

\* The process after WarmTurns sequential turns of one conversation, whose id
\* the first turn minted.
InitWarm ==
    /\ sessions = SetItem(EmptyDict, WarmSid, Served(WarmTurns))
    /\ lock = 0
    /\ appended = [s \in SessionIds |->
                     IF s = WarmSid THEN ServedLog(WarmTurns) ELSE <<>>]
    /\ issued = [s \in SessionIds |->
                     IF s = WarmSid THEN BagOfSeq(ServedLog(WarmTurns)) ELSE EmptyBag]
    /\ InitLocals
    /\ BatchIdle

\* ------------------------------------------------------------ the lock
\* A faulty lock that never makes a thread wait.
CanAcquireAlways(p) == TRUE
\* Lock.acquire() returns only when no thread holds the lock.
CanAcquire(p) == lock = 0

\* ------------------------------------------------- starting a request
\* A process takes its next request when it has none or has answered the
\* last one; the locals of the request before are gone.
Ended(p) == pc[p] \in {"done", "failed", "abandoned"}
Ready(p) == (pc[p] = "idle" \/ Ended(p)) /\ opsStarted < MaxOps

Begin(p, kind, q, sid, at) ==
    /\ opsStarted' = opsStarted + 1
    /\ op' = [op EXCEPT ![p] = kind]
    /\ pc' = [pc EXCEPT ![p] = at]
    /\ question' = [question EXCEPT ![p] = q]
    /\ arg_sid' = [arg_sid EXCEPT ![p] = sid]
    /\ session_id' = [session_id EXCEPT ![p] = sid]
    /\ history' = [history EXCEPT ![p] = <<>>]
    /\ search_query' = [search_query EXCEPT ![p] = <<>>]
    /\ retriever_query' = [retriever_query EXCEPT ![p] = <<>>]
    /\ output' = [output EXCEPT ![p] = <<>>]
    /\ answer' = [answer EXCEPT ![p] = <<>>]
    /\ frames' = [frames EXCEPT ![p] = <<>>]
    /\ active_sessions' = [active_sessions EXCEPT ![p] = 0]
    /\ stored' = [stored EXCEPT ![p] = <<>>]
    /\ logAtFetch' = [logAtFetch EXCEPT ![p] = <<>>]
    /\ UNCHANGED <<batch, sessions, lock, cur, appended, issued>>

\* A faulty test that creates a session for every request.
NeedsSessionAlways(sid) == TRUE
\* "if not session_id: session_id = self.create_session()"
NeedsSession(sid) == Falsy(sid)

\* POST /session
StartCreate(p) ==
    /\ Ready(p)
    /\ Begin(p, "create", <<>>, None, "cs_lock")

\* A direct call of get_session_history(sid).
StartGet(p, sid) ==
    /\ Ready(p)
    /\ Begin(p, "get", <<>>, sid, "gh_lock")

\* GET /index-info
StartInfo(p) ==
    /\ Ready(p)
    /\ Begin(p, "info", <<>>, None, "info")

\* POST /chat (kind "query") and POST /chat/stream (kind "stream"): the entry
\* of query / query_stream, up to the test of session_id.
StartChat(p, kind, q, sid) ==
    /\ Ready(p)
    /\ Begin(p, kind, q, sid, IF NeedsSession(sid) THEN "cs_lock" ELSE "gh_lock")

\* ------------------------------------------------------ create_session
\* session_id = uuid.uuid4().hex[:12]; entering "with self._lock".
\* The id is random: nothing in the code relates it to the ids in use.
CreateAcquire(p) ==
    /\ pc[p] = "cs_lock"
    /\ CanAcquire(p)
    /\ \E id \in SessionIds : session_id' = [session_id EXCEPT ![p] = id]
    /\ lock' = p
    /\ pc' = [pc EXCEPT ![p] = "cs_set"]
    /\ UNCHANGED <<batch, sessions, op, arg_sid, question, history, search_query, output,
                   retriever_query,
                   answer, frames, cur, active_sessions, appended, issued,
                   stored, logAtFetch, opsStarted>>

\* self._sessions[session_id] = []; leaving the with block; return session_id.
CreateSet(p) ==
    /\ pc[p] = "cs_set"
    /\ sessions' = SetItem(sessions, session_id[p], <<>>)
    /\ lock' = 0
    /\ appended' = [appended EXCEPT ![session_id[p]] = <<>>]
    /\ issued' = [issued EXCEPT ![session_id[p]] = EmptyBag]
    /\ pc' = [pc EXCEPT ![p] = IF op[p] = "create" THEN "done" ELSE "gh_lock"]
    /\ UNCHANGED <<batch, op, arg_sid, session_id, question, history, search_query,
                   retriever_query,
                   output, answer, frames, cur, active_sessions, stored,
                   logAtFetch, opsStarted>>

\* ------------------------------------------------- get_session_history
GetAcquire(p) ==
    /\ pc[p] = "gh_lock"
    /\ CanAcquire(p)
    /\ lock' = p
    /\ pc' = [pc EXCEPT ![p] = "gh_copy"]
    /\ UNCHANGED <<batch, sessions, locals, appended, issued, opsStarted>>

\* return list(self._sessions.get(session_id, [])); leaving the with block.
GetCopy(p) ==
    /\ pc[p] = "gh_copy"
    /\ history' = [history EXCEPT ![p] = GetOr(sessions, session_id[p])]
    /\ logAtFetch' = [logAtFetch EXCEPT ![p] = appended[session_id[p]]]
    /\ lock' = 0
    /\ pc' = [pc EXCEPT ![p] = IF op[p] = "get" THEN "done" ELSE "rewrite"]
    /\ UNCHANGED <<batch, sessions, op, arg_sid, session_id, question, search_query,
                   retriever_query,
                   output, answer, frames, cur, active_sessions, appended, issued,
                   stored, opsStarted>>

\* ------------------------------------------------------ get_index_info
\* "active_sessions": len(self._sessions), read with no lock taken.
GetIndexInfo(p) ==
    /\ pc[p] = "info"
    /\ active_sessions' = [active_sessions EXCEPT ![p] = Cardinality(DOMAIN sessions)]
    /\ pc' = [pc EXCEPT ![p] = "done"]
    /\ UNCHANGED <<batch, sessions, lock, op, arg_sid, session_id, question, history,
                   search_query, output, answer, frames, cur, appended, issued,
                   retriever_query,
                   stored, logAtFetch, opsStarted>>

\* ------------------------------------------- event_generator (main.py)
\* What query_stream yields: a str token, or the dict tagged "__metadata__".
TokenItem(t) == [kind |-> "token", value |-> t]
MetaItem(p) == [kind |-> "meta", value |-> <<session_id[p]>>]
\* A faulty framing that sends every item as a text frame.
FrameAllText(item) == [tag |-> "0", data |-> item.value]
\* The frame sent for an item: d:{json} for the metadata, 0:"token" otherwise.
Frame(item) ==
    IF item.kind = "meta"
    THEN [tag |-> "d", data |-> item.value]
    ELSE [tag |-> "0", data |-> item.value]
\* except Exception as e: yield e:{"error": str(e)}
ErrorFrame == [tag |-> "e", data |-> <<>>]

\* An exception leaves query (chat answers 500) or query_stream
\* (event_generator sends the error frame and ends).
Raise(p) ==
    /\ pc' = [pc EXCEPT ![p] = "failed"]
    /\ frames' = [frames EXCEPT ![p] =
                    IF op[p] = "stream" THEN Append(@, ErrorFrame) ELSE @]

\* ------------------------------------------------ _rewrite_with_context
\* The history text put in REWRITE_PROMPT.
RewriteContext(p) == Window(history[p])
\* A faulty rewrite that returns the stripped response as it is.
RewriteResultNoFallback(q, content) == Strip(content)
\* rewritten = rewrite_resp.content.strip(); return rewritten or question.
RewriteResult(q, content) == IF Strip(content) # <<>> THEN Strip(content) ELSE q

\* "if not history: return question": the chat model is not called.
RewriteSkip(p) ==
    /\ pc[p] = "rewrite"
    /\ history[p] = <<>>
    /\ search_query' = [search_query EXCEPT ![p] = question[p]]
    /\ pc' = [pc EXCEPT ![p] = "retrieve"]
    /\ UNCHANGED <<batch, sessions, lock, op, arg_sid, session_id, question, history,
                   retriever_query,
                   output, answer, frames, cur, active_sessions, appended, issued,
                   stored, logAtFetch, opsStarted>>

\* self.llm.invoke(REWRITE_PROMPT...) returns content.
Rewrite(p, content) ==
    /\ pc[p] = "rewrite"
    /\ history[p] # <<>>
    /\ search_query' = [search_query EXCEPT ![p] = RewriteResult(question[p], content)]
    /\ pc' = [pc EXCEPT ![p] = "retrieve"]
    /\ UNCHANGED <<batch, sessions, lock, op, arg_sid, session_id, question, history,
                   retriever_query,
                   output, answer, frames, cur, active_sessions, appended, issued,
                   stored, logAtFetch, opsStarted>>

\* self.llm.invoke raises in the rewrite.
RewriteFail(p) ==
    /\ pc[p] = "rewrite"
    /\ history[p] # <<>>
    /\ Raise(p)
    /\ UNCHANGED <<batch, sessions, lock, op, arg_sid, session_id, question, history,
                   search_query, output, answer, cur, active_sessions, appended,
                   retriever_query,
                   issued, stored, logAtFetch, opsStarted>>

\* ------------------------------------------------------------ retrieval
\* A faulty retrieval that searches for the question as the caller sent it.
RetrieverInputQuestion(p) == question[p]
\* The argument of self.retriever.invoke(...)
RetrieverInput(p) == search_query[p]

\* docs = self.retriever.invoke(search_query): the call is entered.
RetrieveCall(p) ==
    /\ pc[p] = "retrieve"
    /\ retriever_query' = [retriever_query EXCEPT ![p] = RetrieverInput(p)]
    /\ pc' = [pc EXCEPT ![p] = "retrieving"]
    /\ UNCHANGED <<batch, sessions, lock, op, arg_sid, session_id, question, history,
                   search_query, output, answer, frames, cur, active_sessions,
                   appended, issued, stored, logAtFetch, opsStarted>>

\* The retriever returns docs, and the prompt is composed.  This is the last
\* read of search_query, which the model then forgets.
Retrieve(p) ==
    /\ pc[p] = "retrieving"
    /\ retriever_query' = [retriever_query EXCEPT ![p] = <<>>]
    /\ search_query' = [search_query EXCEPT ![p] = <<>>]
    /\ pc' = [pc EXCEPT ![p] = "generate"]
    /\ UNCHANGED <<batch, sessions, lock, op, arg_sid, session_id, question, history,
                   output, answer, frames, cur, active_sessions, appended, issued,
                   stored, logAtFetch, opsStarted>>

\* The retriever raises.
RetrieveFail(p) ==
    /\ pc[p] = "retrieving"
    /\ Raise(p)
    /\ retriever_query' = [retriever_query EXCEPT ![p] = <<>>]
    /\ UNCHANGED <<batch, sessions, lock, op, arg_sid, session_id, question, history,
                   search_query, output, answer, cur, active_sessions, appended,
                   issued, stored, logAtFetch, opsStarted>>

\* messages = [system_msg] + history_msgs + [HumanMessage(content=question)],
\* without the system message.
PromptHistory(p) == Window(history[p])
Messages(p) == PromptHistory(p) \o <<Msg("user", question[p])>>

\* ----------------------------------------------------------- generation
\* The chat model's answer to a prompt is a sequence of chunks; invoke returns
\* their concatenation as response.content, stream hands them out one by one.
InvokeContent(chunks) == Concat(chunks)

\* response = self.llm.invoke(messages)
Generate(p, chunks) ==
    /\ pc[p] = "generate"
    /\ op[p] = "query"
    /\ output' = [output EXCEPT ![p] = chunks]
    /\ answer' = [answer EXCEPT ![p] = InvokeContent(chunks)]
    /\ pc' = [pc EXCEPT ![p] = "au_lock"]
    /\ UNCHANGED <<batch, sessions, lock, op, arg_sid, session_id, question, history,
                   search_query, frames, cur, active_sessions, appended, issued,
                   retriever_query,
                   stored, logAtFetch, opsStarted>>

\* A faulty query that has saved the user message when the chat model raises.
GenerateFailAfterSave(p) ==
    /\ pc[p] = "generate"
    /\ op[p] = "query"
    /\ Raise(p)
    /\ sessions' = SetItem(sessions, session_id[p],
                       Append(GetOr(sessions, session_id[p]), Msg("user", question[p])))
    /\ stored' = [stored EXCEPT ![p] =
                    Append(@, [sid |-> session_id[p], msg |-> Msg("user", question[p])])]
    /\ UNCHANGED <<batch, lock, op, arg_sid, session_id, question, history,
                   search_query, output, answer, cur, active_sessions, appended,
                   retriever_query,
                   issued, logAtFetch, opsStarted>>
\* self.llm.invoke(messages) raises.
GenerateFail(p) ==
    /\ pc[p] = "generate"
    /\ op[p] = "query"
    /\ Raise(p)
    /\ UNCHANGED <<batch, sessions, lock, op, arg_sid, session_id, question, history,
                   search_query, output, answer, cur, active_sessions, appended,
                   retriever_query,
                   issued, stored, logAtFetch, opsStarted>>

\* The generator is running its loop (pc "generate") or suspended at
\* "yield token" (pc "yielded"); the caller's next pull resumes it.
InStream(p) == op[p] = "stream" /\ pc[p] \in {"generate", "yielded"}

\* full_response += token
Accumulate(full, token) == full \o token
\* A faulty yield that hands out full_response.
YieldedCumulative(full, token) == full
\* yield token, after the accumulation
Yielded(full, token) == token

\* for chunk in self.llm.stream(messages): token = chunk.content;
\* if token: full_response += token; yield token
StreamChunk(p, token) ==
    /\ InStream(p)
    /\ Continues(output[p], token)
    /\ output' = [output EXCEPT ![p] = Append(@, token)]
    /\ IF token # <<>>
       THEN /\ answer' = [answer EXCEPT ![p] = Accumulate(@, token)]
            /\ frames' = [frames EXCEPT ![p] =
                            Append(@, Frame(TokenItem(Yielded(answer'[p], token))))]
            /\ pc' = [pc EXCEPT ![p] = "yielded"]
       ELSE /\ pc' = [pc EXCEPT ![p] = "generate"]
            /\ UNCHANGED <<batch, answer, frames>>
    /\ UNCHANGED <<batch, sessions, lock, op, arg_sid, session_id, question, history,
                   search_query, cur, active_sessions, appended, issued,
                   retriever_query,
                   stored, logAtFetch, opsStarted>>

\* self.llm.stream raises between chunks.
StreamFail(p) ==
    /\ InStream(p)
    /\ Raise(p)
    /\ UNCHANGED <<batch, sessions, lock, op, arg_sid, session_id, question, history,
                   search_query, output, answer, cur, active_sessions, appended,
                   retriever_query,
                   issued, stored, logAtFetch, opsStarted>>

\* The caller goes away while the generator is suspended at "yield token":
\* the generator is never resumed.
StreamAbandon(p) ==
    /\ op[p] = "stream"
    /\ pc[p] = "yielded"
    /\ pc' = [pc EXCEPT ![p] = "abandoned"]
    /\ UNCHANGED <<batch, sessions, lock, locals, appended, issued, opsStarted>>

\* The stream is exhausted: the for loop ends.
StreamEnd(p) ==
    /\ InStream(p)
    /\ output[p] \in Outputs
    /\ pc' = [pc EXCEPT ![p] = "au_lock"]
    /\ UNCHANGED <<batch, sessions, lock, locals, appended, issued, opsStarted>>

\* --------------------------------------------------- _append_to_session
\* self._append_to_session(session_id, "user", question)
UserMessage(p) == Msg("user", question[p])
\* self._append_to_session(session_id, "assistant", response.content), and
\* in query_stream (session_id, "assistant", full_response)
AssistantMessage(p) == Msg("assistant", answer[p])

\* A faulty order: the assistant's message first.
CallMessageSwapped(p) ==
    IF pc[p] \in {"au_lock", "au_push"} THEN AssistantMessage(p) ELSE UserMessage(p)
\* The message of the call a process is in: the user's first.
CallMessage(p) ==
    IF pc[p] \in {"au_lock", "au_push"} THEN UserMessage(p) ELSE AssistantMessage(p)

\* Entering "with self._lock"; history = self._sessions[session_id], which
\* inserts the key when it is missing.  The lock keeps every other writer
\* out until the block is left, so the list the local names is kept by value.
AppendAcquire(p) ==
    /\ pc[p] \in {"au_lock", "aa_lock"}
    /\ CanAcquire(p)
    /\ lock' = p
    /\ sessions' = Touch(sessions, session_id[p])
    /\ cur' = [cur EXCEPT ![p] = GetOr(sessions, session_id[p])]
    /\ issued' = [issued EXCEPT ![session_id[p]] = @ (+) SetToBag({CallMessage(p)})]
    /\ pc' = [pc EXCEPT ![p] = IF pc[p] = "au_lock" THEN "au_push" ELSE "aa_push"]
    /\ UNCHANGED <<batch, op, arg_sid, session_id, question, history, search_query,
                   retriever_query,
                   output, answer, frames, active_sessions, appended,
                   stored, logAtFetch, opsStarted>>

\* history.append({...}); the trim; leaving the with block.  After the
\* assistant's append query returns its dict and query_stream yields the
\* metadata, which event_generator frames.
AppendStore(p) ==
    /\ pc[p] \in {"au_push", "aa_push"}
    /\ sessions' = SetItem(sessions, session_id[p],
                           Trimmed(Append(cur[p], CallMessage(p))))
    /\ lock' = 0
    /\ cur' = [cur EXCEPT ![p] = <<>>]
    /\ appended' = [appended EXCEPT ![session_id[p]] = Append(@, CallMessage(p))]
    /\ stored' = [stored EXCEPT ![p] =
                    Append(@, [sid |-> session_id[p], msg |-> CallMessage(p)])]
    /\ pc' = [pc EXCEPT ![p] = IF pc[p] = "au_push" THEN "aa_lock" ELSE "done"]
    /\ frames' = [frames EXCEPT ![p] =
                    IF pc[p] = "aa_push" /\ op[p] = "stream"
                    THEN Append(@, Frame(MetaItem(p)))
                    ELSE @]
    /\ UNCHANGED <<batch, op, arg_sid, session_id, question, history, search_query,
                   retriever_query,
                   output, answer, active_sessions, issued, logAtFetch,
                   opsStarted>>

\* A process takes a request.
Starts(p) ==
    \/ StartCreate(p)
    \/ \E sid \in SessionIds : StartGet(p, sid)
    \/ StartInfo(p)
    \/ \E kind \in {"query", "stream"}, q \in Questions, sid \in SessionArgs :
          StartChat(p, kind, q, sid)

\* A process takes the next step of its request.
Runs(p) ==
    \/ CreateAcquire(p)
    \/ CreateSet(p)
    \/ GetAcquire(p)
    \/ GetCopy(p)
    \/ GetIndexInfo(p)
    \/ RewriteSkip(p)
    \/ \E content \in RewriteResponses : Rewrite(p, content)
    \/ RewriteFail(p)
    \/ RetrieveCall(p)
    \/ Retrieve(p)
    \/ RetrieveFail(p)
    \/ \E chunks \in Outputs : Generate(p, chunks)
    \/ GenerateFail(p)
    \/ \E token \in Tokens : StreamChunk(p, token)
    \/ StreamFail(p)
    \/ StreamAbandon(p)
    \/ StreamEnd(p)
    \/ AppendAcquire(p)
    \/ AppendStore(p)

Next == \E p \in Procs : Starts(p) \/ Runs(p)

Spec == Init /\ [][Next]_vars

SpecWarm == InitWarm /\ [][Next]_vars

\* The steps of p inside create_session, get_session_history and
\* _append_to_session: taking the lock, and the with block up to its end.
LockStep(p) ==
    \/ CreateAcquire(p)
    \/ CreateSet(p)
    \/ GetAcquire(p)
    \/ GetCopy(p)
    \/ AppendAcquire(p)
    \/ AppendStore(p)
\* Every thread that can run is scheduled.  Nothing is assumed of the chat
\* model, of the retriever or of the clients: a call to them may never
\* return, and no request need ever come.
SpecFair == Spec /\ \A p \in Procs : WF_vars(LockStep(p))

\* The requests of one client that waits for each answer before it sends the
\* next (scripts/test_memory.py): a request starts only while no other is
\* under way.
Busy(p) == pc[p] # "idle" /\ ~Ended(p)
StartsAlone(p) == (\A r \in Procs : ~Busy(r)) /\ Starts(p)
NextSeq == \E p \in Procs : StartsAlone(p) \/ Runs(p)
SpecSeq == InitWarm /\ [][NextSeq]_vars

\* ================================================== the offline pipeline
\* The serving process at rest, as after __init__.
serverVars == <<sessions, lock, pc, op, arg_sid, session_id, question, history,
                search_query, output, answer, frames, cur, active_sessions,
                retriever_query,
                appended, issued, stored, logAtFetch, opsStarted>>
ServerIdle ==
    /\ sessions = EmptyDict
    /\ lock = 0
    /\ appended = [s \in SessionIds |-> <<>>]
    /\ issued = [s \in SessionIds |-> EmptyBag]
    /\ InitLocals

\* -------------------------------------------- scripts/clean_raw_data.py
\* Text is a sequence of symbols: single characters, and the two literals
\* the related-products pattern looks for, each taken as one symbol.
NL == "\n"
CR == "\r"
TAB == "\t"
HASHES == "###"
RELATED == "Related products"
\* len() of a text: the literals count their characters.
CharCount(t) ==
    Len(t) + 2 * Cardinality({i \in DOMAIN t : t[i] = HASHES})
           + 15 * Cardinality({i \in DOMAIN t : t[i] = RELATED})

\* Each symbol of t with the one and the two before it ("" at the start).
WithBefore(t) ==
    [i \in DOMAIN t |-> [c |-> t[i],
                         p1 |-> IF i > 1 THEN t[i - 1] ELSE "",
                         p2 |-> IF i > 2 THEN t[i - 2] ELSE ""]]
Symbols(xs) == [i \in DOMAIN xs |-> xs[i].c]

\* What \s and str.strip() take for whitespace.
TextWhitespace == {" ", TAB, NL, CR}
Blanks == {" ", TAB}

\* t without its longest prefix of symbols of S.
RECURSIVE DropLeading(_, _)
DropLeading(t, S) ==
    IF t # <<>> /\ Head(t) \in S THEN DropLeading(Tail(t), S) ELSE t
RECURSIVE DropTrailing(_, _)
DropTrailing(t, S) ==
    IF t # <<>> /\ t[Len(t)] \in S THEN DropTrailing(SubSeq(t, 1, Len(t) - 1), S) ELSE t
\* str.rstrip() and str.strip() on texts
RStripText(t) == DropTrailing(t, TextWhitespace)
StripText(t) == DropTrailing(DropLeading(t, TextWhitespace), TextWhitespace)

\* text.replace("\r\n", "\n").replace("\r", "\n")
\* (a "\n" right after a "\r" goes, then every "\r" becomes "\n")
ReplaceCR(t) ==
    LET kept == SelectSeq(WithBefore(t), LAMBDA x : ~(x.c = NL /\ x.p1 = CR))
    IN  [i \in DOMAIN kept |-> IF kept[i].c = CR THEN NL ELSE kept[i].c]

\* re.sub(r"[ \t]+", " ", text)
\* (a run of blanks becomes one space)
CollapseBlanks(t) ==
    LET kept == SelectSeq(WithBefore(t), LAMBDA x : ~(x.c \in Blanks /\ x.p1 \in Blanks))
    IN  [i \in DOMAIN kept |-> IF kept[i].c \in Blanks THEN " " ELSE kept[i].c]

\* re.sub(r"\n{3,}", "\n\n", text)
\* (of a run of newlines the first two stay)
CollapseNewlines(t) ==
    Symbols(SelectSeq(WithBefore(t), LAMBDA x : ~(x.c = NL /\ x.p1 = NL /\ x.p2 = NL)))

normalize_whitespace(text) ==
    StripText(CollapseNewlines(CollapseBlanks(ReplaceCR(text))))

\* The index of the first c in t, 0 if there is none.
FirstIndex(t, c) ==
    IF \E i \in DOMAIN t : t[i] = c
    THEN CHOOSE i \in DOMAIN t : t[i] = c /\ \A j \in 1..(i - 1) : t[j] # c
    ELSE 0

\* text.split("\n")
RECURSIVE SplitLines(_)
SplitLines(t) ==
    LET i == FirstIndex(t, NL)
    IN  IF i = 0 THEN <<t>>
        ELSE <<SubSeq(t, 1, i - 1)>> \o SplitLines(SubSeq(t, i + 1, Len(t)))

\* "\n".join(lines)
RECURSIVE JoinLines(_)
JoinLines(ls) ==
    IF ls = <<>> THEN <<>>
    ELSE IF Len(ls) = 1 THEN ls[1]
    ELSE ls[1] \o <<NL>> \o JoinLines(Tail(ls))

\* The stripped lines should_drop_line drops, among the lines that can be
\* written with the symbols used here: the lone close mark "x".
DroppedLines == {<<"x">>}
should_drop_line(line) ==
    LET s == StripText(line) IN s # <<>> /\ s \in DroppedLines

\* The places where re "\n###\s*Related products\s*\n" matches: m.start().
RelatedMatches(text) ==
    {i \in DOMAIN text :
        /\ text[i] = NL
        /\ i + 1 <= Len(text) /\ text[i + 1] = HASHES
        /\ \E j \in (i + 2)..Len(text) :
              /\ text[j] = RELATED
              /\ \A k \in (i + 2)..(j - 1) : text[k] \in TextWhitespace
              /\ \E e \in (j + 1)..Len(text) :
                    /\ text[e] = NL
                    /\ \A k \in (j + 1)..(e - 1) : text[k] \in TextWhitespace}

strip_related_products_block(text, page_type) ==
    IF page_type # "product" THEN text
    ELSE IF RelatedMatches(text) = {} THEN text
    ELSE LET cut_idx == CHOOSE i \in RelatedMatches(text) :
                            \A j \in RelatedMatches(text) : i <= j
         IN  RStripText(SubSeq(text, 1, cut_idx - 1))

\* The kept lines: those should_drop_line does not drop.
RECURSIVE KeptLines(_)
KeptLines(ls) ==
    IF ls = <<>> THEN <<>>
    ELSE (IF should_drop_line(Head(ls)) THEN <<>> ELSE <<Head(ls)>>)
             \o KeptLines(Tail(ls))

\* prev = None
NoLine == <<"None">>
RECURSIVE DedupeFrom(_, _)
DedupeFrom(ls, prev) ==
    IF ls = <<>> THEN <<>>
    ELSE IF Head(ls) = prev /\ StripText(Head(ls)) # <<>>
         THEN DedupeFrom(Tail(ls), prev)
         ELSE <<Head(ls)>> \o DedupeFrom(Tail(ls), Head(ls))
dedupe_consecutive(ls) == DedupeFrom(ls, NoLine)

clean_markdown(markdown, page_type) ==
    LET text == strip_related_products_block(normalize_whitespace(markdown), page_type)
        kept == dedupe_consecutive(KeptLines(SplitLines(text)))
    IN  normalize_whitespace(JoinLines(kept))

\* ---- process_file
\* "if len(text) < 40"
MinCleanChars == 40
\* A faulty test that excludes only the empty text.
TooShortEmpty(text) == text = <<>>
TooShort(text) == CharCount(text) < MinCleanChars

Rep(c, n) == [i \in 1..n |-> c]

\* The markdown of the raw records: texts around the threshold, before and
\* after cleaning, and a page of boilerplate lines only.
Markdowns ==
    { Rep("a", MinCleanChars - 1),
      Rep("a", MinCleanChars),
      <<"x", NL>> \o Rep("a", MinCleanChars) \o <<NL, " ", "x">>,
      <<" ", " ">> \o Rep("a", MinCleanChars - 1) \o <<" ", NL>>,
      Rep("a", MinCleanChars - 1) \o <<NL>> \o Rep("a", MinCleanChars - 1),
      <<"x", NL, " ", "x", CR, NL, "x">> }
\* A field a record does not have, and a JSON null.
NoField == "NoField"
Null == "Null"

\* The lines of a raw shard: blank, unparseable, or a JSON object, whose
\* "markdown" is a string (has = "str"), missing or null.
RawLine(kind, has, m, pt) ==
    [kind |-> kind, has |-> has, markdown |-> m, page_type |-> pt]
BlankLine == RawLine("blank", NoField, <<>>, NoField)
BadLine == RawLine("bad", NoField, <<>>, NoField)
RecordLines ==
    {RawLine("record", "str", m, "other") : m \in Markdowns}
        \cup {RawLine("record", NoField, <<>>, NoField),
              RawLine("record", Null, <<>>, "product"),
              RawLine("record", "str",
                      Rep("a", MinCleanChars) \o <<NL, HASHES, " ", RELATED, NL>>
                          \o Rep("b", MinCleanChars), "product")}
RawLines == {BlankLine, BadLine} \cup RecordLines

MaxLines == 3
RECURSIVE SeqsUpTo(_, _)
SeqsUpTo(S, n) ==
    IF n = 0 THEN {<<>>}
    ELSE LET shorter == SeqsUpTo(S, n - 1)
         IN  shorter \cup {Append(q, x) : q \in {r \in shorter : Len(r) = n - 1}, x \in S}
RawShards == SeqsUpTo(RawLines, MaxLines) \ {<<>>}

\* raw_text = obj.get("markdown", ""); page_type = obj.get("page_type", "other")
RawText(obj) == IF obj.has = NoField THEN <<>> ELSE obj.markdown
PageTypeOf(obj) == IF obj.page_type = NoField THEN "other" ELSE obj.page_type
CleanedText(obj) == clean_markdown(RawText(obj), PageTypeOf(obj))

\* The record written for obj, read from line n of the shard.
OutRecord(obj, n) ==
    [line |-> n,
     page_type |-> obj.page_type,
     text |-> CleanedText(obj),
     raw_char_count |-> CharCount(RawText(obj)),
     clean_char_count |-> CharCount(CleanedText(obj))]

restOfClean == <<serverVars, fnVars, chunkVars, citeVars, loadVars>>

InLoop == clean_pc = "loop" /\ line_no < Len(src_lines)
Line == src_lines[line_no + 1]

\* "line = line.strip(); if not line: continue"
SkipBlankLine ==
    /\ InLoop
    /\ Line.kind = "blank"
    /\ line_no' = line_no + 1
    /\ UNCHANGED <<src_lines, dst, read_records, clean_pc, restOfClean>>

\* json.loads(line) raises on a line that is not JSON: nothing catches it,
\* process_file and main end with the exception.
LoadsRaises ==
    /\ InLoop
    /\ Line.kind = "bad"
    /\ line_no' = line_no + 1
    /\ read_records' = read_records + 1
    /\ clean_pc' = "raised"
    /\ UNCHANGED <<src_lines, dst, restOfClean>>

\* clean_markdown(None, ...) raises: "markdown": null in the record.
CleanRaises ==
    /\ InLoop
    /\ Line.kind = "record"
    /\ Line.has = Null
    /\ line_no' = line_no + 1
    /\ read_records' = read_records + 1
    /\ clean_pc' = "raised"
    /\ UNCHANGED <<src_lines, dst, restOfClean>>

\* "if len(text) < 40: continue"
DropRecord ==
    /\ InLoop
    /\ Line.kind = "record"
    /\ Line.has # Null
    /\ TooShort(CleanedText(Line))
    /\ line_no' = line_no + 1
    /\ read_records' = read_records + 1
    /\ UNCHANGED <<src_lines, dst, clean_pc, restOfClean>>

\* dst.write(json.dumps(out) + "\n")
WriteRecord ==
    /\ InLoop
    /\ Line.kind = "record"
    /\ Line.has # Null
    /\ ~TooShort(CleanedText(Line))
    /\ line_no' = line_no + 1
    /\ read_records' = read_records + 1
    /\ dst' = Append(dst, OutRecord(Line, line_no + 1))
    /\ UNCHANGED <<src_lines, clean_pc, restOfClean>>

\* The for loop ends; process_file returns its counters.
CloseShard ==
    /\ clean_pc = "loop"
    /\ line_no = Len(src_lines)
    /\ clean_pc' = "done"
    /\ UNCHANGED <<src_lines, line_no, dst, read_records, restOfClean>>

InitClean ==
    /\ ServerIdle
    /\ LoadIdle
    /\ CiteIdle
    /\ FnIdle
    /\ ChunkIdle
    /\ src_lines \in RawShards
    /\ line_no = 0
    /\ dst = <<>>
    /\ read_records = 0
    /\ clean_pc = "loop"

NextClean ==
    \/ SkipBlankLine
    \/ LoadsRaises
    \/ CleanRaises
    \/ DropRecord
    \/ WriteRecord
    \/ CloseShard

SpecClean == InitClean /\ [][NextClean]_vars

\* ---- clean_markdown applied twice
MaxTextLen == 6
Alphabet == {"a", "x", " ", NL}
PageTypes == {"product", "other"}
\* Every text of up to MaxTextLen symbols, and pages with the heading of the
\* related-products block.
Texts ==
    SeqsUpTo(Alphabet, MaxTextLen)
        \cup {<<"a", NL, HASHES, " ", RELATED, " ", NL, "a">>,
              <<"a", NL, HASHES, NL, "x", NL, RELATED, NL, "a">>,
              <<"a", NL, HASHES, RELATED>>}

restOfFn == <<serverVars, cleanVars, chunkVars, citeVars, loadVars>>

CleanOnce ==
    /\ fn_pc = "raw"
    /\ once' = clean_markdown(fn_markdown, fn_page_type)
    /\ fn_pc' = "once"
    /\ UNCHANGED <<fn_markdown, fn_page_type, twice, restOfFn>>

CleanTwice ==
    /\ fn_pc = "once"
    /\ twice' = clean_markdown(once, fn_page_type)
    /\ fn_pc' = "twice"
    /\ UNCHANGED <<fn_markdown, fn_page_type, once, restOfFn>>

InitFn ==
    /\ ServerIdle
    /\ LoadIdle
    /\ CiteIdle
    /\ CleanIdle
    /\ ChunkIdle
    /\ fn_markdown \in Texts
    /\ fn_page_type \in PageTypes
    /\ once = <<>>
    /\ twice = <<>>
    /\ fn_pc = "raw"

NextFn == CleanOnce \/ CleanTwice

SpecFn == InitFn /\ [][NextFn]_vars

\* --------------------------------------------- scripts/chunk_semantic.py
MIN_DOC_CHARS == 100
MIN_CHUNK_CHARS == 50
\* The separator "\n\n" merge_small_chunks joins with.
SEP == <<NL, NL>>

MaxSpans == 4
\* The spans (doc.page_content) the splitter can return: two that reach the
\* minimum only together, one at the minimum, one just below, an empty one.
Spans ==
    { Rep("a", MIN_CHUNK_CHARS \div 2 - 1),
      Rep("b", MIN_CHUNK_CHARS \div 2 - 1),
      Rep("c", MIN_CHUNK_CHARS),
      Rep("d", MIN_CHUNK_CHARS - 1),
      <<>> }
SpanSeqs == SeqsUpTo(Spans, MaxSpans)
\* record.get("text", ""): a missing text, and texts around MIN_DOC_CHARS.
DocTexts == {<<>>, Rep("t", MIN_DOC_CHARS - 1), Rep("t", MIN_DOC_CHARS)}

\* One chunk record (the fields copied from the record are left out).
ChunkRecord(idx, chunk_text) ==
    [chunk_index |-> idx, text |-> chunk_text, char_count |-> Len(chunk_text)]

\* A faulty join that puts the new span first.
GlueReversed(b, chunk) == IF b # <<>> THEN chunk \o SEP \o b ELSE chunk
\* "if buf: buf = buf + "\n\n" + chunk else: buf = chunk"
Glue(b, chunk) == IF b # <<>> THEN b \o SEP \o chunk ELSE chunk

\* A faulty leftover that always becomes a chunk of its own.
WithLeftoverAlone(m, b) == IF b = <<>> THEN m ELSE Append(m, b)
\* "if buf: if merged: merged[-1] = merged[-1] + "\n\n" + buf
\*          else: merged.append(buf)"
WithLeftover(m, b) ==
    IF b = <<>> THEN m
    ELSE IF m # <<>> THEN [m EXCEPT ![Len(m)] = @ \o SEP \o b]
    ELSE Append(m, b)

restOfChunk == <<serverVars, cleanVars, fnVars, citeVars, loadVars>>

\* "if len(text) < MIN_DOC_CHARS: return [one chunk with the whole text]"
ShortDoc ==
    /\ chunk_pc = "start"
    /\ Len(doc_text) < MIN_DOC_CHARS
    /\ results' = <<ChunkRecord(0, doc_text)>>
    /\ chunk_pc' = "done"
    /\ UNCHANGED <<doc_text, raw_chunks, span_no, buf, merged, restOfChunk>>

\* chunker.create_documents([text]); entering merge_small_chunks, which
\* returns an empty list as it is.
Split(spans) ==
    /\ chunk_pc = "start"
    /\ Len(doc_text) >= MIN_DOC_CHARS
    /\ raw_chunks' = spans
    /\ chunk_pc' = IF spans = <<>> THEN "emit" ELSE "merge"
    /\ UNCHANGED <<doc_text, span_no, buf, merged, results, restOfChunk>>

\* chunker.create_documents raises; main skips the record.
SplitRaises ==
    /\ chunk_pc = "start"
    /\ Len(doc_text) >= MIN_DOC_CHARS
    /\ chunk_pc' = "skipped"
    /\ UNCHANGED <<doc_text, raw_chunks, span_no, buf, merged, results, restOfChunk>>

\* One turn of "for chunk in chunks".
MergeStep ==
    /\ chunk_pc = "merge"
    /\ span_no < Len(raw_chunks)
    /\ LET b == Glue(buf, raw_chunks[span_no + 1])
       IN  IF Len(b) >= MIN_CHUNK_CHARS
           THEN merged' = Append(merged, b) /\ buf' = <<>>
           ELSE merged' = merged /\ buf' = b
    /\ span_no' = span_no + 1
    /\ UNCHANGED <<doc_text, raw_chunks, results, chunk_pc, restOfChunk>>

\* After the loop: the leftover, and return merged.
MergeEnd ==
    /\ chunk_pc = "merge"
    /\ span_no = Len(raw_chunks)
    /\ merged' = WithLeftover(merged, buf)
    /\ buf' = <<>>
    /\ chunk_pc' = "emit"
    /\ UNCHANGED <<doc_text, raw_chunks, span_no, results, restOfChunk>>

\* "for idx, chunk_text in enumerate(chunks): results.append({...})"
Emit ==
    /\ chunk_pc = "emit"
    /\ results' = [i \in DOMAIN merged |-> ChunkRecord(i - 1, merged[i])]
    /\ chunk_pc' = "done"
    /\ UNCHANGED <<doc_text, raw_chunks, span_no, buf, merged, restOfChunk>>

InitChunk ==
    /\ ServerIdle
    /\ LoadIdle
    /\ CiteIdle
    /\ CleanIdle
    /\ FnIdle
    /\ doc_text \in DocTexts
    /\ raw_chunks = <<>>
    /\ span_no = 0
    /\ buf = <<>>
    /\ merged = <<>>
    /\ results = <<>>
    /\ chunk_pc = "start"

NextChunk ==
    \/ ShortDoc
    \/ \E spans \in SpanSeqs : Split(spans)
    \/ SplitRaises
    \/ MergeStep
    \/ MergeEnd
    \/ Emit

SpecChunk == InitChunk /\ [][NextChunk]_vars

\* ------------------------------------- retriever.py, _extract_citations
MaxDocs == 4
\* doc.metadata.get("url", ""): "" for a chunk without url.
Urls == {"", "u1", "u2", "u3"}
DocLists == SeqsUpTo(Urls, MaxDocs)

\* A faulty test that forgets the seen set.
IsNewUrlUnseen(url, sn) == url # ""
\* "if url and url not in seen"
IsNewUrl(url, sn) == url # "" /\ url \notin sn

restOfCite == <<serverVars, cleanVars, fnVars, chunkVars, loadVars>>

Url == cite_docs[doc_no + 1]

\* seen.add(url); urls.append(url)
TakeUrl ==
    /\ cite_pc = "loop"
    /\ doc_no < Len(cite_docs)
    /\ IsNewUrl(Url, seen)
    /\ seen' = seen \cup {Url}
    /\ urls' = Append(urls, Url)
    /\ doc_no' = doc_no + 1
    /\ UNCHANGED <<cite_docs, cite_pc, restOfCite>>

\* An empty url, or one seen before.
PassUrl ==
    /\ cite_pc = "loop"
    /\ doc_no < Len(cite_docs)
    /\ ~IsNewUrl(Url, seen)
    /\ doc_no' = doc_no + 1
    /\ UNCHANGED <<cite_docs, seen, urls, cite_pc, restOfCite>>

\* return urls
ReturnUrls ==
    /\ cite_pc = "loop"
    /\ doc_no = Len(cite_docs)
    /\ cite_pc' = "done"
    /\ UNCHANGED <<cite_docs, doc_no, seen, urls, restOfCite>>

InitCite ==
    /\ ServerIdle
    /\ LoadIdle
    /\ CleanIdle
    /\ FnIdle
    /\ ChunkIdle
    /\ cite_docs \in DocLists
    /\ doc_no = 0
    /\ seen = {}
    /\ urls = <<>>
    /\ cite_pc = "loop"

NextCite == TakeUrl \/ PassUrl \/ ReturnUrls

SpecCite == InitCite /\ [][NextCite]_vars

\* ------------------------------------ scripts/load_raw_from_firecrawl.py
\* retries: int = 5
RETRIES == 5
\* The outcomes of one urlopen call: a response read in full, an HTTPError
\* with its code, or another exception (URLError, timeout, bad JSON).
HTTP_OK == 200
OTHER_ERROR == -1
RateLimited == 429
ServerErrors == {500, 503}
FatalCodes == {404}
\* The N of "retry after Ns" in the error detail; NoHint when it has none.
NoHint == -1
Hints == {NoHint, 3, 60}

Max(a, b) == IF a > b THEN a ELSE b

\* A faulty wait that ignores the hint.
Wait429NoHint(a, hint) == 5 + a * 5
\* wait_s = 5 + attempt * 5; if m: wait_s = max(wait_s, int(m.group(1)))
Wait429(a, hint) == IF hint = NoHint THEN 5 + a * 5 ELSE Max(5 + a * 5, hint)
\* time.sleep(2 + attempt * 2)
WaitOther(a) == 2 + a * 2
\* "attempt < retries - 1"
NotLast(a) == a < RETRIES - 1

\* What POST /crawl answers: with or without an id, with or without a status.
StartBodies ==
    {[id |-> FALSE, status |-> ""],
     [id |-> TRUE, status |-> ""],
     [id |-> TRUE, status |-> "scraping"],
     [id |-> TRUE, status |-> "Completed"]}
\* The "status" GET /crawl/{id} reports for a job in state js.
\* A job still running may also answer with no "status" field at all.
Reports(js) ==
    IF js = "completed" THEN {"completed", "Completed"}
    ELSE IF js = "scraping" THEN {"scraping", ""}
    ELSE {js}
\* str(...).lower()
Lower(st) == IF st = "Completed" THEN "completed" ELSE st
TerminalStates == {"completed", "failed", "cancelled"}
\* A faulty test that takes every status for terminal.
IsTerminalAny(st) == TRUE
\* "state in {"completed", "failed", "cancelled"}"
IsTerminal(st) == Lower(st) \in TerminalStates

restOfLoad == <<serverVars, cleanVars, fnVars, chunkVars, citeVars>>

\* The entry of api_request, up to the for loop.
BeginRequest(c) ==
    /\ call' = c
    /\ attempt' = 0
    /\ http_attempts' = 0
    /\ last_resp' = 0
    /\ retry_log' = <<>>

\* started = start_crawl(payload, api_key)
StartCrawl ==
    /\ load_pc = "main"
    /\ load_pc' = "request"
    /\ BeginRequest("start")
    /\ UNCHANGED <<job_state, started, status, waited, shard, restOfLoad>>

InRequest(c) == load_pc = "request" /\ call = c /\ attempt < RETRIES
Urlopen(resp) ==
    /\ http_attempts' = http_attempts + 1
    /\ last_resp' = resp

\* POST /crawl answers; api_request returns the body.
StartOk(body) ==
    /\ InRequest("start")
    /\ Urlopen(HTTP_OK)
    /\ started' = body
    /\ job_state' = IF ~body.id THEN "none"
                    ELSE IF IsTerminal(body.status) THEN Lower(body.status)
                    ELSE "scraping"
    /\ load_pc' = "started"
    /\ UNCHANGED <<call, attempt, retry_log, status, waited, shard, restOfLoad>>

\* GET /crawl/{id} answers; get_crawl_status returns the status.
StatusOk(report) ==
    /\ InRequest("status")
    /\ report \in Reports(job_state)
    /\ Urlopen(HTTP_OK)
    /\ status' = report
    /\ load_pc' = "polled"
    /\ UNCHANGED <<call, attempt, retry_log, job_state, started, waited, shard,
                   restOfLoad>>

Retry(code, hint, wait_s) ==
    /\ retry_log' = Append(retry_log,
            [attempt |-> attempt, code |-> code, hint |-> hint, wait |-> wait_s])
    /\ attempt' = attempt + 1

\* HTTPError 429 before the last attempt: sleep, continue.
Retry429(hint) ==
    /\ load_pc = "request" /\ attempt < RETRIES
    /\ NotLast(attempt)
    /\ Urlopen(RateLimited)
    /\ Retry(RateLimited, hint, Wait429(attempt, hint))
    /\ UNCHANGED <<load_pc, call, job_state, started, status, waited, shard, restOfLoad>>

\* HTTPError 5xx before the last attempt: sleep, continue.
Retry5xx(code) ==
    /\ load_pc = "request" /\ attempt < RETRIES
    /\ NotLast(attempt)
    /\ Urlopen(code)
    /\ Retry(code, NoHint, WaitOther(attempt))
    /\ UNCHANGED <<load_pc, call, job_state, started, status, waited, shard, restOfLoad>>

\* Another exception before the last attempt: sleep, continue.
RetryError ==
    /\ load_pc = "request" /\ attempt < RETRIES
    /\ NotLast(attempt)
    /\ Urlopen(OTHER_ERROR)
    /\ Retry(OTHER_ERROR, NoHint, WaitOther(attempt))
    /\ UNCHANGED <<load_pc, call, job_state, started, status, waited, shard, restOfLoad>>

\* raise RuntimeError(f"HTTP {e.code} ..."): any other HTTPError, and a 429 or
\* 5xx on the last attempt. Nothing in main catches it.
HttpRaise(code) ==
    /\ load_pc = "request" /\ attempt < RETRIES
    /\ code \in FatalCodes \/ ~NotLast(attempt)
    /\ Urlopen(code)
    /\ load_pc' = "raised"
    /\ UNCHANGED <<call, attempt, retry_log, job_state, started, status, waited,
                   shard, restOfLoad>>

\* "raise" of another exception on the last attempt.
ErrorRaise ==
    /\ load_pc = "request" /\ attempt < RETRIES
    /\ ~NotLast(attempt)
    /\ Urlopen(OTHER_ERROR)
    /\ load_pc' = "raised"
    /\ UNCHANGED <<call, attempt, retry_log, job_state, started, status, waited,
                   shard, restOfLoad>>

\* main after start_crawl: no id raises; a terminal status is kept; any other
\* enters poll_until_complete, whose first statement calls get_crawl_status.
AfterStart ==
    /\ load_pc = "started"
    /\ IF ~started.id
       THEN /\ load_pc' = "raised"
            /\ UNCHANGED <<call, attempt, http_attempts, last_resp, retry_log, status>>
       ELSE IF IsTerminal(started.status)
       THEN /\ load_pc' = "write"
            /\ status' = started.status
            /\ UNCHANGED <<call, attempt, http_attempts, last_resp, retry_log>>
       ELSE /\ load_pc' = "request"
            /\ BeginRequest("status")
            /\ UNCHANGED status
    /\ UNCHANGED <<job_state, started, waited, shard, restOfLoad>>

\* "if state in {...}: return status"
PollReturn ==
    /\ load_pc = "polled"
    /\ IsTerminal(status)
    /\ load_pc' = "write"
    /\ UNCHANGED <<call, attempt, http_attempts, last_resp, retry_log, job_state,
                   started, status, waited, shard, restOfLoad>>

\* time.sleep(5), and the next get_crawl_status.
PollAgain ==
    /\ load_pc = "polled"
    /\ ~IsTerminal(status)
    /\ waited' = TRUE
    /\ load_pc' = "request"
    /\ BeginRequest("status")
    /\ UNCHANGED <<job_state, started, status, shard, restOfLoad>>

\* write_jsonl(out_path, rows), rows taken from status["data"].
WriteShard ==
    /\ load_pc = "write"
    /\ shard' = status
    /\ load_pc' = "written"
    /\ UNCHANGED <<call, attempt, http_attempts, last_resp, retry_log, job_state,
                   started, status, waited, restOfLoad>>

\* The provider ends the crawl job.
ProviderFinish(js) ==
    /\ job_state = "scraping"
    /\ job_state' = js
    /\ UNCHANGED <<load_pc, call, attempt, http_attempts, last_resp, retry_log,
                   started, status, waited, shard, restOfLoad>>

InitLoad ==
    /\ ServerIdle
    /\ CleanIdle
    /\ FnIdle
    /\ ChunkIdle
    /\ CiteIdle
    /\ load_pc = "main"
    /\ call = "none"
    /\ attempt = 0
    /\ http_attempts = 0
    /\ last_resp = 0
    /\ retry_log = <<>>
    /\ job_state = "none"
    /\ started = NoBody
    /\ status = ""
    /\ waited = FALSE
    /\ shard = "none"

LoaderStep ==
    \/ StartCrawl
    \/ \E body \in StartBodies : StartOk(body)
    \/ \E report \in TerminalStates \cup {"scraping", "Completed", ""} : StatusOk(report)
    \/ \E hint \in Hints : Retry429(hint)
    \/ \E code \in ServerErrors : Retry5xx(code)
    \/ RetryError
    \/ \E code \in FatalCodes \cup ServerErrors \cup {RateLimited} : HttpRaise(code)
    \/ ErrorRaise
    \/ AfterStart
    \/ PollReturn
    \/ PollAgain
    \/ WriteShard

NextLoad ==
    \/ LoaderStep
    \/ \E js \in TerminalStates : ProviderFinish(js)

SpecLoad == InitLoad /\ [][NextLoad]_vars

\* The script is one sequential process: every urlopen ends (timeout=180), every
\* sleep returns, and the next statement runs. Nothing makes the provider finish
\* a job.
SpecLoadFair == SpecLoad /\ WF_vars(LoaderStep)

\* ====================================================== the claims
Chat(p) == op[p] \in {"query", "stream"}
Cap == MAX_HISTORY_TURNS * 2
Min(a, b) == IF a < b THEN a ELSE b

\* A process is inside the with block of _append_to_session for id sid.
InAppend(p, sid) == pc[p] \in {"au_push", "aa_push"} /\ session_id[p] = sid
Quiet(sid) == \A p \in Procs : ~InAppend(p, sid)

IsText(f) == f.tag = "0"
NonEmpty(t) == t # <<>>
\* The tokens of the text frames, in the order sent.
TextTokens(fs) ==
    LET texts == SelectSeq(fs, IsText) IN [i \in 1..Len(texts) |-> texts[i].data]

C3_NoPartialAppend ==
    \A p \in Procs :
        /\ pc[p] \in {"failed", "abandoned"} => stored[p] = <<>>
        /\ (Chat(p) /\ Ended(p)) => Len(stored[p]) \in {0, 2}

\* C3 witness: a stream that failed after text frames had been sent, on a
\* session that already holds messages.
C3_Witness ==
    \E p \in Procs :
        /\ op[p] = "stream"
        /\ pc[p] = "failed"
        /\ Len(frames[p]) >= 2
        /\ history[p] # <<>>
        /\ GetOr(sessions, session_id[p]) = history[p]

\* C4: the frames of a /chat/stream response are text frames carrying the
\* non-empty tokens in generation order, then, once the response is complete,
\* exactly one metadata frame; a failed response ends with an error frame and
\* has no metadata frame; nothing follows a metadata or an error frame.
C4_FrameOrder ==
    \A p \in Procs :
        LET fs == frames[p]
            n == Len(fs)
        IN  /\ op[p] # "stream" => fs = <<>>
            /\ op[p] = "stream" =>
                /\ \A i \in 1..(n - 1) : fs[i].tag = "0"
                /\ TextTokens(fs) = SelectSeq(output[p], NonEmpty)
                /\ pc[p] = "done" <=> (n > 0 /\ fs[n].tag = "d")
                /\ pc[p] = "failed" <=> (n > 0 /\ fs[n].tag = "e")

\* C4 witness: a complete response of two text frames and the metadata frame.
C4_Witness ==
    \E p \in Procs :
        /\ op[p] = "stream"
        /\ pc[p] = "done"
        /\ Len(frames[p]) = 3
        /\ frames[p][3].tag = "d"

\* C5 (the claim as stated): the id create_session mints for a request without
\* session_id is not a key of the session map when it is stored, so storing
\* the empty history under it replaces no session.
C5_FreshId ==
    [][\A p \in Procs :
          (Chat(p) /\ pc[p] = "cs_set" /\ pc'[p] # "cs_set")
              => session_id[p] \notin DOMAIN sessions]_vars

\* C6: a request that sends a session_id keeps it as its session_id, appends
\* its messages under that id only, and when it is done has appended both and
\* returns that id, which is a key of the session map.
C6_SessionKept ==
    \A p \in Procs :
        (Chat(p) /\ ~Falsy(arg_sid[p])) =>
            /\ session_id[p] = arg_sid[p]
            /\ \A i \in DOMAIN stored[p] : stored[p][i].sid = arg_sid[p]
            /\ pc[p] = "done" =>
                /\ Len(stored[p]) = 2
                /\ arg_sid[p] \in DOMAIN sessions
                /\ (op[p] = "stream" =>
                        frames[p][Len(frames[p])].data = <<arg_sid[p]>>)

\* C6 witness: a later turn of a conversation is done: the request sent an id
\* under which it found messages.
C6_Witness ==
    \E p \in Procs :
        /\ Chat(p)
        /\ pc[p] = "done"
        /\ arg_sid[p] \in SessionIds
        /\ history[p] # <<>>

\* C7: once a request has fetched its history, the history put in the rewrite
\* prompt and the history put in the generation prompt are the last
\* HISTORY_WINDOW messages appended to the session before the fetch, so they
\* hold the question and the answer of an earlier turn that is among them.
C7_PriorTurnInContext ==
    \A p \in Procs :
        (Chat(p) /\ pc[p] \notin {"cs_lock", "cs_set", "gh_lock", "gh_copy"}) =>
            /\ PromptHistory(p) = LastN(logAtFetch[p], HISTORY_WINDOW)
            /\ RewriteContext(p) = LastN(logAtFetch[p], HISTORY_WINDOW)

\* C7 witness: a request composes its prompt on a session that holds more than
\* HISTORY_WINDOW messages, the last two from a turn completed before.
C7_Witness ==
    \E p, r \in Procs :
        /\ p # r
        /\ Chat(p) /\ pc[p] = "generate"
        /\ Chat(r) /\ pc[r] = "done" /\ session_id[r] = session_id[p]
        /\ Len(history[p]) > HISTORY_WINDOW
        /\ Len(stored[r]) = 2
        /\ SubSeq(history[p], Len(history[p]) - 1, Len(history[p]))
               = <<stored[r][1].msg, stored[r][2].msg>>

\* C8: when a streamed response is complete, the concatenation of the tokens
\* of its text frames in the order sent is the answer the non-streamed path
\* returns for the same output of the chat model.
C8_StreamEqualsAnswer ==
    \A p \in Procs :
        (op[p] = "stream" /\ pc[p] = "done") =>
            Concat(TextTokens(frames[p])) = InvokeContent(output[p])

\* C8 witness: a complete streamed response whose model output has an empty
\* chunk between two tokens.
C8_Witness ==
    \E p \in Procs :
        /\ op[p] = "stream"
        /\ pc[p] = "done"
        /\ Len(output[p]) = 3
        /\ Len(TextTokens(frames[p])) = 2

\* C9: a request appends only after its generation has completed; when it is
\* done it has appended exactly two messages: the user message with the
\* question as sent, then the assistant message with the full answer (for a
\* stream, the concatenation of the tokens sent).
C9_PersistAfterGenerate ==
    \A p \in Procs :
        Chat(p) =>
            /\ stored[p] # <<>> => pc[p] \in {"aa_lock", "aa_push", "done"}
            /\ pc[p] \in {"aa_lock", "aa_push"} =>
                   /\ Len(stored[p]) = 1
                   /\ stored[p][1].msg = Msg("user", question[p])
            /\ pc[p] = "done" =>
                   /\ Len(stored[p]) = 2
                   /\ stored[p][1].msg = Msg("user", question[p])
                   /\ stored[p][2].msg = Msg("assistant", InvokeContent(output[p]))
                   /\ (op[p] = "stream" =>
                          stored[p][2].msg.content = Concat(TextTokens(frames[p])))

\* C9 witness: a streamed request on a session with earlier messages is done,
\* its answer made of two tokens.
C9_Witness ==
    \E p \in Procs :
        /\ op[p] = "stream"
        /\ pc[p] = "done"
        /\ history[p] # <<>>
        /\ Len(answer[p]) = 2

\* The steps that read or write self._sessions.
Accesses(p) ==
    /\ pc[p] \in {"cs_set", "gh_copy", "au_lock", "aa_lock", "au_push", "aa_push", "info"}
    /\ pc'[p] # pc[p]
\* C10 (the claim as stated): every step that reads or writes the session map
\* is taken by a process that holds the lock, or takes it in that step.
C10_AllAccessLocked ==
    [][\A p \in Procs :
          Accesses(p) =>
              IF pc[p] \in {"au_lock", "aa_lock"} THEN lock' = p ELSE lock = p]_vars

\* The text cleaning makes of the record on line n of the shard.
CleanedLine(n) == CleanedText(src_lines[n])
\* A text all of whose lines are blank or boilerplate.
OnlyBoilerplate(md) ==
    LET ls == SplitLines(normalize_whitespace(md))
    IN  \A i \in DOMAIN ls : StripText(ls[i]) = <<>> \/ should_drop_line(ls[i])

\* C11: every record of the cleaned shard carries the cleaned text of the raw
\* record it was made from, that text has at least 40 characters and
\* clean_char_count is its length; the written records are, in order, exactly
\* the raw records read so far whose cleaned text has 40 characters or more,
\* so a record of boilerplate lines only, which cleans to the empty text, is
\* never among them.
C11_NoShortRecord ==
    /\ \A i \in DOMAIN dst :
          /\ dst[i].line \in 1..line_no
          /\ dst[i].text = CleanedLine(dst[i].line)
          /\ CharCount(dst[i].text) >= MinCleanChars
          /\ dst[i].clean_char_count = CharCount(dst[i].text)
          /\ dst[i].clean_char_count >= MinCleanChars
          /\ \A j \in DOMAIN dst : i < j => dst[i].line < dst[j].line
    /\ \A n \in 1..line_no :
          (src_lines[n].kind = "record" /\ src_lines[n].has = "str") =>
              LET text == CleanedLine(n)
                  written == \E i \in DOMAIN dst : dst[i].line = n
              IN  /\ CharCount(text) < MinCleanChars => ~written
                  /\ OnlyBoilerplate(src_lines[n].markdown) => (text = <<>> /\ ~written)
                  /\ CharCount(text) >= MinCleanChars => written

\* C11 witness: a shard is done in which a page of boilerplate lines only and
\* a record whose cleaned text has 39 characters were read and left out, and a
\* record that cleans to exactly 40 characters was written.
C11_Witness ==
    /\ clean_pc = "done"
    /\ Len(dst) = 1
    /\ dst[1].clean_char_count = MinCleanChars
    /\ dst[1].raw_char_count > MinCleanChars
    /\ \E n \in 1..line_no :
          /\ src_lines[n].kind = "record"
          /\ src_lines[n].has = "str"
          /\ src_lines[n].markdown # <<>>
          /\ OnlyBoilerplate(src_lines[n].markdown)
    /\ \E n \in 1..line_no :
          /\ src_lines[n].kind = "record"
          /\ src_lines[n].has = "str"
          /\ CharCount(CleanedLine(n)) = MinCleanChars - 1

\* C12 (the claim as stated): cleaning a cleaned text changes nothing:
\* clean_markdown(clean_markdown(x, p), p) = clean_markdown(x, p).
C12_Idempotent == fn_pc = "twice" => twice = once

\* "sep".join(texts)
RECURSIVE JoinWith(_, _)
JoinWith(texts, sep) ==
    IF texts = <<>> THEN <<>>
    ELSE IF Len(texts) = 1 THEN texts[1]
    ELSE texts[1] \o sep \o JoinWith(Tail(texts), sep)
ChunkTexts == [i \in DOMAIN results |-> results[i].text]

\* C13: every chunk the merge loop has put in merged has at least
\* MIN_CHUNK_CHARS characters, and of the chunks emitted for a document none is
\* shorter than MIN_CHUNK_CHARS unless it is the document's only chunk; the
\* chunk_index values are 0..n-1 and char_count is the length of the text.
C13_NoSmallChunk ==
    /\ chunk_pc = "merge" => \A i \in DOMAIN merged : Len(merged[i]) >= MIN_CHUNK_CHARS
    /\ chunk_pc = "done" =>
          \A i \in DOMAIN results :
              /\ Len(results) > 1 => Len(results[i].text) >= MIN_CHUNK_CHARS
              /\ results[i].chunk_index = i - 1
              /\ results[i].char_count = Len(results[i].text)

\* C13 witness: a document of several chunks whose last span, below the
\* minimum, was left over after a chunk had been completed.
C13_Witness ==
    /\ chunk_pc = "done"
    /\ Len(results) >= 2
    /\ Len(raw_chunks) = MaxSpans
    /\ raw_chunks[MaxSpans] # <<>>
    /\ Len(raw_chunks[MaxSpans]) < MIN_CHUNK_CHARS
    /\ Len(raw_chunks[MaxSpans - 1]) >= MIN_CHUNK_CHARS

\* C14: when the spans the splitter returned are all non-empty, the texts of
\* the emitted chunks, in chunk_index order and joined with the blank-line
\* separator, are the spans joined with that separator in their order; while
\* the merge runs, merged and buf together hold the spans taken so far.
C14_MergeKeepsAll ==
    (\A i \in DOMAIN raw_chunks : raw_chunks[i] # <<>>) =>
        /\ chunk_pc = "merge" =>
              JoinWith(IF buf = <<>> THEN merged ELSE Append(merged, buf), SEP)
                  = JoinWith(SubSeq(raw_chunks, 1, span_no), SEP)
        /\ (chunk_pc = "done" /\ Len(doc_text) >= MIN_DOC_CHARS) =>
              /\ JoinWith(ChunkTexts, SEP) = JoinWith(raw_chunks, SEP)
              /\ \A i \in DOMAIN results : results[i].chunk_index = i - 1

\* C14 witness: four non-empty spans were merged into two chunks, the first
\* made of two spans.
C14_Witness ==
    /\ chunk_pc = "done"
    /\ Len(raw_chunks) = 4
    /\ \A i \in DOMAIN raw_chunks : raw_chunks[i] # <<>>
    /\ Len(results) = 2
    /\ Len(raw_chunks[1]) < MIN_CHUNK_CHARS
    /\ raw_chunks[1] # raw_chunks[2]

\* C15: the citation list never holds a URL twice; it holds exactly the
\* non-empty URLs of the docs taken so far (all of them when the function
\* returns), in the order of their first occurrence in the retrieval order.
C15_Citations ==
    LET taken == SubSeq(cite_docs, 1, doc_no)
    IN  /\ \A i, j \in DOMAIN urls : i # j => urls[i] # urls[j]
        /\ {urls[i] : i \in DOMAIN urls} = {taken[i] : i \in DOMAIN taken} \ {""}
        /\ \A i, j \in DOMAIN urls :
              i < j => FirstIndex(taken, urls[i]) < FirstIndex(taken, urls[j])
        /\ cite_pc = "done" => doc_no = Len(cite_docs)

\* C15 witness: the citations of four docs, one without url and two with the
\* same url, the repeated url being the first.
C15_Witness ==
    /\ cite_pc = "done"
    /\ Len(cite_docs) = 4
    /\ Len(urls) = 2
    /\ \E i \in DOMAIN cite_docs : cite_docs[i] = ""
    /\ \E i \in 2..Len(cite_docs) : cite_docs[i] = cite_docs[1] /\ cite_docs[1] # ""
    /\ cite_docs[Len(cite_docs)] = urls[1]

\* C16 (the claim as stated, for the cleaner): a line that cannot be parsed,
\* or a record whose markdown is null, never ends process_file: the run goes
\* on to the end of the shard, and every later record with enough cleaned
\* text is written.
C16_MalformedSkipped ==
    /\ clean_pc # "raised"
    /\ clean_pc = "done" =>
          /\ line_no = Len(src_lines)
          /\ \A n \in 1..Len(src_lines) :
                (src_lines[n].kind = "record" /\ src_lines[n].has = "str"
                    /\ ~TooShort(CleanedLine(n)))
                    => \E i \in DOMAIN dst : dst[i].line = n

Retryable == {RateLimited, OTHER_ERROR} \cup ServerErrors
\* The call has returned a body to its caller.
Returned == load_pc \in {"started", "polled", "write", "written"}

\* C17: one api_request call makes at most RETRIES urlopen attempts; every
\* retried failure is a 429, a 5xx or a non-HTTP error on an attempt before the
\* last, and is followed by a wait that is 5 + 5 * attempt for 429, raised to
\* the "retry after Ns" hint when that is longer, and 2 + 2 * attempt otherwise,
\* so that for the same response a later attempt never waits less and without
\* a hint waits more; another HTTP status ends the call at once by raising; a
\* failure on the last attempt raises; a body is returned only from a response
\* that was read.
C17_RetryContract ==
    /\ http_attempts <= RETRIES
    /\ Len(retry_log) = attempt
    /\ http_attempts \in {attempt, attempt + 1}
    /\ \A i \in 1..Len(retry_log) :
        LET e == retry_log[i] IN
        /\ e.attempt = i - 1
        /\ e.attempt < RETRIES - 1
        /\ e.code \in Retryable
        /\ e.code = RateLimited =>
              /\ e.wait >= 5 + 5 * e.attempt
              /\ e.wait >= e.hint
              /\ e.wait \in {5 + 5 * e.attempt, e.hint}
        /\ e.code # RateLimited => e.wait = 2 + 2 * e.attempt
    /\ \A i, j \in 1..Len(retry_log) :
        (i < j /\ retry_log[i].code = retry_log[j].code
               /\ retry_log[i].hint = retry_log[j].hint) =>
           /\ retry_log[i].wait <= retry_log[j].wait
           /\ retry_log[i].hint = NoHint => retry_log[i].wait < retry_log[j].wait
    /\ last_resp \in FatalCodes =>
           load_pc = "raised" /\ http_attempts = Len(retry_log) + 1
    /\ (load_pc # "request" /\ last_resp \in Retryable) =>
           load_pc = "raised" /\ http_attempts = RETRIES
    /\ (load_pc = "request" /\ http_attempts > 0) => last_resp \in Retryable
    /\ Returned => last_resp = HTTP_OK

\* A call that raised on its fifth attempt, after waiting on a 429 with a long
\* hint and on a 5xx.
C17_Witness ==
    /\ load_pc = "raised"
    /\ http_attempts = RETRIES
    /\ last_resp \in Retryable
    /\ \E i, j \in 1..Len(retry_log) :
        /\ retry_log[i].code = RateLimited /\ retry_log[i].hint = 60
        /\ retry_log[i].wait = 60
        /\ retry_log[j].code \in ServerErrors

Polling == call = "status" /\ load_pc \in {"request", "polled"}
TerminalStatus(st) == Lower(st) \in TerminalStates

\* C20 as stated: polling ends only on a terminal status (otherwise it goes on
\* forever), so whenever the polling has ended the last status is terminal.
C20_EndsOnlyOnTerminal ==
    (call = "status" /\ load_pc \notin {"request", "polled"}) => TerminalStatus(status)

\* C20, amended: poll_until_complete returns only a status whose state is
\* completed, failed or cancelled, and the shard is written only from such a
\* status; after a status that is not terminal the only continuation is
\* another status request, with no limit on their number; the polling is left
\* only by returning a terminal status or by api_request raising, in which case
\* no shard is written; and once the job is in a terminal state the polling
\* ends.
C20_PollUntilTerminal ==
    /\ [](load_pc \in {"write", "written"} => TerminalStatus(status))
    /\ [](shard # "none" => TerminalStatus(shard))
    /\ [](load_pc = "raised" => shard = "none")
    /\ [][(load_pc = "polled" /\ ~TerminalStatus(status) /\ load_pc' # load_pc)
            => (load_pc' = "request" /\ call' = "status" /\ http_attempts' = 0)]_vars
    /\ [][(Polling /\ ~Polling')
            => \/ load_pc = "polled" /\ load_pc' = "write" /\ TerminalStatus(status')
               \/ load_pc = "request" /\ load_pc' = "raised"
                    /\ last_resp' # HTTP_OK]_vars
    /\ ((Polling /\ job_state \in TerminalStates) ~> ~Polling)

\* A shard written from a terminal status that the loader slept for.
C20_Witness ==
    /\ load_pc = "written"
    /\ waited
    /\ shard = "Completed"
    /\ job_state = "completed"

\* The rewrites the chat model can answer with, stripped, when not blank.
ProperRewrites == {Strip(c) : c \in RewriteResponses} \ {<<>>}
Degenerate(content) == Strip(content) = <<>>

\* C18: the query handed to the retrieval is never empty; with an empty history
\* the rewrite step cannot fail (the chat model is not called) and the query
\* is the question; with a history the step either raises with the chat model
\* or yields the stripped rewrite, and the question itself, not stripped, when
\* the rewrite is empty or only whitespace.
C18_RewriteFallback ==
    /\ [](\A p \in Procs :
            pc[p] = "retrieve" =>
                /\ search_query[p] # <<>>
                /\ history[p] = <<>> => search_query[p] = question[p]
                /\ search_query[p] \in {question[p]} \cup ProperRewrites)
    /\ [](\A q \in {<<"q">>, <<" ", "q", " ">>, <<" ">>}, c \in RewriteResponses :
            /\ RewriteResult(q, c) # <<>>
            /\ Degenerate(c) => RewriteResult(q, c) = q)
    /\ [][\A p \in Procs :
            (pc[p] = "rewrite" /\ pc'[p] # "rewrite") =>
                IF history[p] = <<>>
                THEN pc'[p] = "retrieve" /\ search_query'[p] = question[p]
                ELSE \/ pc'[p] = "failed"
                     \/ /\ pc'[p] = "retrieve"
                        /\ \E c \in RewriteResponses :
                              search_query'[p] =
                                  IF Degenerate(c) THEN question[p] ELSE Strip(c)]_vars

\* A follow-up whose rewrite came back blank: the question is searched for.
C18_Witness ==
    \E p \in Procs :
        /\ pc[p] = "retrieve"
        /\ history[p] # <<>>
        /\ search_query[p] = question[p]
        /\ question[p] \notin ProperRewrites

BeforeRetrieval(p) ==
    pc[p] \in {"cs_lock", "cs_set", "gh_lock", "gh_copy", "rewrite", "retrieve"}
Generating(p) == pc[p] \in {"generate", "yielded"}

\* C19: in query and in query_stream a request goes from the rewrite to the
\* retrieval, from the retrieval to the generation and from the generation to
\* the two appends, each entered from the one before only; the retriever is
\* called with the query the rewrite returned; nothing is generated before the
\* retrieval has returned and nothing is stored before the generation is over;
\* the last message of the prompt and the first message stored are the
\* question as the caller sent it.
C19_StepOrder ==
    /\ [](\A p \in Procs :
            Chat(p) =>
                /\ pc[p] # "retrieving" => retriever_query[p] = <<>>
                /\ pc[p] = "retrieving" =>
                       /\ retriever_query[p] = search_query[p]
                       /\ retriever_query[p] \in {question[p]} \cup ProperRewrites
                /\ (BeforeRetrieval(p) \/ pc[p] = "retrieving") =>
                       output[p] = <<>> /\ stored[p] = <<>>
                /\ Generating(p) => stored[p] = <<>>
                /\ pc[p] = "generate" =>
                       Messages(p)[Len(Messages(p))] = Msg("user", question[p])
                /\ stored[p] # <<>> => stored[p][1].msg = Msg("user", question[p]))
    /\ [][\A p \in Procs :
            pc'[p] # pc[p] =>
                /\ pc'[p] = "retrieve" => pc[p] = "rewrite"
                /\ pc'[p] = "retrieving" => pc[p] = "retrieve"
                /\ pc'[p] = "generate" => pc[p] \in {"retrieving", "yielded"}
                /\ pc'[p] = "au_lock" => Generating(p)
                /\ pc'[p] = "rewrite" => pc[p] \in {"cs_set", "gh_copy"}]_vars

\* Two follow-ups, one through each entry point, whose retrieval runs with a
\* rewritten query that is not the question.
C19_Witness ==
    \E p, r \in Procs :
        /\ op[p] = "query" /\ op[r] = "stream"
        /\ \A x \in {p, r} :
              /\ pc[x] = "retrieving"
              /\ retriever_query[x] \in ProperRewrites \ {question[x]}

\* A query called with no session_id.
OneOff(p) == op[p] = "query" /\ Falsy(arg_sid[p])

\* C21 (the claim as stated): when a query called without session_id is done,
\* the session store holds no message under the id the query ran with: neither
\* the question nor the answer is retained.
C21_OneOffNoMemory ==
    \A p \in Procs :
        (OneOff(p) /\ pc[p] = "done") => GetOr(sessions, session_id[p]) = <<>>

\* C22 (the claim as stated): in the messages appended to a session, in the
\* order they were stored, every user message that is followed by a message
\* is followed by an assistant message: no message of another request comes
\* between a request's question and its answer.
C22_NoInterleaving ==
    \A sid \in SessionIds :
        \A i \in 1..(Len(appended[sid]) - 1) :
            appended[sid][i].role = "user" => appended[sid][i + 1].role = "assistant"

\* C23 (the claim as stated): the text clean_markdown returns has no line that
\* is not blank and equals the line after it.
C23_NoRepeatedLine ==
    fn_pc # "raw" =>
        LET ls == SplitLines(once)
        IN  \A i \in 1..(Len(ls) - 1) :
                ls[i] = ls[i + 1] => StripText(ls[i]) = <<>>

\* A request on sid has stored its question and not yet its answer.
MidTurn(sid) ==
    \E p \in Procs :
        Chat(p) /\ session_id[p] = sid /\ pc[p] \in {"au_push", "aa_lock", "aa_push"}
RoleAt(i) == IF i % 2 = 1 THEN "user" ELSE "assistant"

\* C24: with the requests served one after another, whenever no request is
\* between its two appends the stored history of every session has even
\* length and its messages are user, assistant, user, assistant, ...: each
\* assistant message follows the user message it answers, also after the trim
\* has dropped the oldest messages.
C24_Alternates ==
    \A sid \in DOMAIN sessions :
        ~MidTurn(sid) =>
            /\ Len(sessions[sid]) % 2 = 0
            /\ \A i \in DOMAIN sessions[sid] : sessions[sid][i].role = RoleAt(i)
            /\ \A i \in DOMAIN appended[sid] : appended[sid][i].role = RoleAt(i)

\* The eleventh turn of a conversation is done: the trim has dropped the first
\* turn, and the history is full.
C24_Witness ==
    \E p \in Procs :
        /\ Chat(p) /\ pc[p] = "done"
        /\ \A r \in Procs : ~Busy(r)
        /\ Len(appended[session_id[p]]) = Cap + 2
        /\ Len(sessions[session_id[p]]) = Cap
        /\ sessions[session_id[p]][1].role = "user"
        /\ sessions[session_id[p]][Cap] = stored[p][2].msg

\* p is in create_session, get_session_history or _append_to_session.
SessionOp(p) ==
    pc[p] \in {"cs_lock", "cs_set", "gh_lock", "gh_copy",
               "au_lock", "au_push", "aa_lock", "aa_push"}
InBlock(p) == pc[p] \in {"cs_set", "gh_copy", "au_push", "aa_push"}
\* p is in a call of the chat model or of the retriever, or suspended at a
\* yield of the stream.
External(p) == pc[p] \in {"rewrite", "retrieve", "retrieving", "generate", "yielded"}

\* C25: the lock is held only inside the with block of create_session,
\* get_session_history or _append_to_session, so never during a rewrite, a
\* retrieval or a generation; it is taken only when free, by a thread that is
\* not in a with block; and under fair scheduling of the threads every
\* create, get and append that has begun completes, whatever the other
\* requests do in their external calls.
C25_LockProgress ==
    /\ [](\A p \in Procs :
            /\ lock = p => InBlock(p)
            /\ InBlock(p) => lock = p
            /\ External(p) => lock # p)
    /\ [][\A p \in Procs :
            (lock' = p /\ lock # p) =>
                /\ lock = 0
                /\ pc[p] \in {"cs_lock", "gh_lock", "au_lock", "aa_lock"}]_vars
    /\ \A p \in Procs : SessionOp(p) ~> ~SessionOp(p)

\* A request stores its answer while another is in a retriever call.
C25_Witness ==
    \E p, r \in Procs :
        /\ pc[r] = "retrieving"
        /\ pc[p] = "aa_push"
        /\ lock = p

\* p takes a step.
Stepping(p) == pc'[p] # pc[p]

\* C26: no step removes a key of the session map, so the number of sessions
\* never decreases; a step that adds a key or changes the history under a key
\* is a step of create_session or of _append_to_session by a request whose
\* session id is that key, so every other session is left as it was; the
\* steps of get_session_history and of get_index_info leave the map as it
\* was, whether or not the id is known.
C26_Isolation ==
    [][/\ DOMAIN sessions \subseteq DOMAIN sessions'
       /\ Cardinality(DOMAIN sessions') >= Cardinality(DOMAIN sessions)
       /\ \A sid \in DOMAIN sessions' :
            (sid \notin DOMAIN sessions \/ sessions'[sid] # sessions[sid]) =>
                \E p \in Procs :
                    /\ Stepping(p)
                    /\ session_id[p] = sid
                    /\ pc[p] \in {"cs_set", "au_lock", "aa_lock", "au_push", "aa_push"}
       /\ \A p \in Procs :
            (Stepping(p) /\ pc[p] \in {"gh_lock", "gh_copy", "info"}) =>
                sessions' = sessions]_vars

\* A get_session_history of an id that was unknown has returned the empty
\* list; a later request has then run on that id, and the conversation under
\* the other id is as it was.
C26_Witness ==
    \E p, r \in Procs :
        /\ op[p] = "get" /\ pc[p] = "done" /\ arg_sid[p] = "s2"
        /\ history[p] = <<>> /\ logAtFetch[p] = <<>>
        /\ Chat(r) /\ pc[r] = "done" /\ session_id[r] = "s2"
        /\ DOMAIN sessions = {"s1", "s2"}
        /\ Len(sessions["s2"]) = 2
        /\ sessions["s1"] = Served(WarmTurns)

=============================================================================
